---- MODULE Spec2Model ----
(***************************************************************************)
(* State-machine model of the YouTube transcript pipeline of               *)
(* stockllm/analyzer/youtube/youtube_analyzer.py: process_url,             *)
(* process_playlist, process_single_video, get_video_info, get_transcript, *)
(* download_audio and process_and_transcribe_audio.                        *)
(*                                                                         *)
(* Strings that the code inspects (URLs, video ids) are sequences of       *)
(* one-character strings.  Python dicts are records; the empty dict is the *)
(* empty function <<>>.  Segment times are integers (milliseconds) where   *)
(* the code has float seconds; only + - and <= are applied to them.        *)
(* External services (yt_dlp, the captions API, Cobalt, pydub, the         *)
(* transcription API, the file system) are nondeterministic choices over   *)
(* the outcomes their callers distinguish.                                 *)
(***************************************************************************)
EXTENDS Integers, Sequences, FiniteSets, TLC

\* ------------------------------------------------------------------------
\* Program constants
\* ------------------------------------------------------------------------
MAX_FILE_SIZE == 25 * 1024 * 1024

INITIAL_CHUNK_DURATION == 10 * 60 * 1000

\* "if end - start < 1000" in the shrink loop
MIN_CHUNK_DURATION == 1000

\* ------------------------------------------------------------------------
\* Bounds of the model
\* ------------------------------------------------------------------------
\* largest configured max_retries
MaxRetries == 2

\* largest configured max_retries with which a playlist is processed (the
\* retry loop runs once per video, and a single video is processed with
\* every max_retries up to MaxRetries)
MaxPlaylistRetries == 1

\* largest number of raw entries the playlist enumeration returns
MaxPlaylist == 2

\* largest number of oversize encodings the encoder produces for one video
MaxOversize == 1

\* the same bound where the chunk loop is run on its own: enough halvings
\* to shrink a 4 s candidate below one second
MaxHalvings == 4

\* ------------------------------------------------------------------------
\* Characters and strings
\* ------------------------------------------------------------------------
Digits ==
    <<"0", "1", "2", "3", "4", "5", "6", "7", "8", "9">>

LowerCase ==
    <<"a", "b", "c", "d", "e", "f", "g", "h", "i", "j", "k", "l", "m",
      "n", "o", "p", "q", "r", "s", "t", "u", "v", "w", "x", "y", "z">>

UpperCase ==
    <<"A", "B", "C", "D", "E", "F", "G", "H", "I", "J", "K", "L", "M",
      "N", "O", "P", "Q", "R", "S", "T", "U", "V", "W", "X", "Y", "Z">>

Range(s) == {s[i] : i \in DOMAIN s}

\* the character class [0-9A-Za-z_-]
IdChars == Range(Digits) \cup Range(LowerCase) \cup Range(UpperCase) \cup {"_", "-"}

\* s[i .. i+Len(p)-1] = p
MatchAt(s, i, p) ==
    /\ i >= 1
    /\ i + Len(p) - 1 <= Len(s)
    /\ \A k \in 1..Len(p) : s[i + k - 1] = p[k]

\* the n characters of s from position i are all in [0-9A-Za-z_-]
IdRunAt(s, i, n) ==
    /\ i >= 1
    /\ i + n - 1 <= Len(s)
    /\ \A k \in i..(i + n - 1) : s[k] \in IdChars

Min(a, b) == IF a <= b THEN a ELSE b

MinOf(S) == CHOOSE m \in S : \A o \in S : m <= o

\* Python's None, where the other values are non-empty strings or records
None == <<>>

\* ------------------------------------------------------------------------
\* extract_playlist_id : re.search(r"(?:list=)([0-9A-Za-z_-]+)", url)
\* ------------------------------------------------------------------------
ListEq == <<"l", "i", "s", "t", "=">>

PlaylistMatches(url) ==
    {i \in 1..Len(url) : MatchAt(url, i, ListEq) /\ IdRunAt(url, i + 5, 1)}

\* end of the greedy run of id characters that starts at position i
GreedyEnd(url, i) ==
    CHOOSE j \in i..Len(url) :
        /\ IdRunAt(url, i, j - i + 1)
        /\ (j = Len(url) \/ url[j + 1] \notin IdChars)

extract_playlist_id(url) ==
    IF PlaylistMatches(url) = {} THEN None
    ELSE LET i == MinOf(PlaylistMatches(url)) + 5
         IN  SubSeq(url, i, GreedyEnd(url, i))

\* ------------------------------------------------------------------------
\* extract_video_id : three patterns tried in order with re.search
\* ------------------------------------------------------------------------
\* r"(?:v=|\/)([0-9A-Za-z_-]{11}).*" : start of the captured group
Pattern1Captures(url) ==
    {i + 2 : i \in {j \in 1..Len(url) :
                      MatchAt(url, j, <<"v", "=">>) /\ IdRunAt(url, j + 2, 11)}}
    \cup
    {i + 1 : i \in {j \in 1..Len(url) :
                      MatchAt(url, j, <<"/">>) /\ IdRunAt(url, j + 1, 11)}}

\* "youtu.be" in the pattern has an unescaped dot: any character but a
\* newline matches (the patterns are compiled without re.DOTALL)
YoutuDotBeAt(url, j) ==
    /\ MatchAt(url, j, <<"y", "o", "u", "t", "u">>)
    /\ j + 5 <= Len(url)
    /\ url[j + 5] # "\n"
    /\ MatchAt(url, j + 6, <<"b", "e", "/">>)

\* r"(?:embed\/|v\/|youtu.be\/)([0-9A-Za-z_-]{11})"
Pattern2Captures(url) ==
    {j + 6 : j \in {k \in 1..Len(url) :
                      MatchAt(url, k, <<"e", "m", "b", "e", "d", "/">>)
                      /\ IdRunAt(url, k + 6, 11)}}
    \cup
    {j + 2 : j \in {k \in 1..Len(url) :
                      MatchAt(url, k, <<"v", "/">>) /\ IdRunAt(url, k + 2, 11)}}
    \cup
    {j + 9 : j \in {k \in 1..Len(url) :
                      YoutuDotBeAt(url, k) /\ IdRunAt(url, k + 9, 11)}}

\* r"^([0-9A-Za-z_-]{11})$": without re.MULTILINE "^" is the start of the
\* string and "$" is its end or the position before a newline that ends it
Pattern3Captures(url) ==
    IF /\ IdRunAt(url, 1, 11)
       /\ \/ Len(url) = 11
          \/ Len(url) = 12 /\ url[12] = "\n"
    THEN {1}
    ELSE {}

\* match.group(1): the 11 characters of the group that starts at position i
Group1(url, i) == SubSeq(url, i, i + 10)

\* the leftmost match of a pattern is the one whose capture starts first
\* (every alternative has a fixed-length prefix before the group, and two
\* alternatives of one pattern never match at the same position)
extract_video_id(url) ==
    LET caps ==
            IF Pattern1Captures(url) # {} THEN Pattern1Captures(url)
            ELSE IF Pattern2Captures(url) # {} THEN Pattern2Captures(url)
            ELSE Pattern3Captures(url)
    IN  IF caps = {}
        THEN [exc |-> "InvalidYoutubeVideoURL"]
        ELSE [value |-> Group1(url, MinOf(caps))]

\* ------------------------------------------------------------------------
\* URLs and video ids of the model
\* ------------------------------------------------------------------------
WatchPrefix ==
    <<"h", "t", "t", "p", "s", ":", "/", "/", "w", "w", "w", ".", "y", "o",
      "u", "t", "u", "b", "e", ".", "c", "o", "m", "/", "w", "a", "t", "c",
      "h", "?", "v", "=">>

\* f"https://www.youtube.com/watch?v={video_id}"
WatchUrl(video_id) == WatchPrefix \o video_id

IdStem == <<"X", "u", "z", "K", "4", "Y", "F", "6", "9", "t">>

\* the id of the i-th video known to the model (11 characters)
VideoIdOf(i) == IdStem \o <<Digits[i + 1]>>

UrlVideo == WatchUrl(VideoIdOf(1))

UrlPlaylist ==
    <<"h", "t", "t", "p", "s", ":", "/", "/", "w", "w", "w", ".", "y", "o",
      "u", "t", "u", "b", "e", ".", "c", "o", "m", "/", "p", "l", "a", "y",
      "l", "i", "s", "t", "?", "l", "i", "s", "t", "=", "P", "L", "1">>

UrlInvalid ==
    <<"h", "t", "t", "p", "s", ":", "/", "/", "w", "w", "w", ".", "e", "x",
      "a", "m", "p", "l", "e", ".", "c", "o", "m">>

Urls == {UrlVideo, UrlPlaylist, UrlInvalid}

\* ------------------------------------------------------------------------
\* Python dict helpers
\* ------------------------------------------------------------------------
EmptyDict == <<>>

\* {**a, **b} and a.update(b): the keys of b win
Merge(a, b) ==
    [k \in DOMAIN a \cup DOMAIN b |-> IF k \in DOMAIN b THEN b[k] ELSE a[k]]

\* ------------------------------------------------------------------------
\* Paths
\* ------------------------------------------------------------------------
\* self.configs["output_dir"], the default of the configuration
OutputDir ==
    <<"d", "a", "t", "a", "/", "y", "o", "u", "t", "u", "b", "e", "/", "s",
      "u", "b", "t", "i", "t", "l", "e", "s">>

\* os.path.join(a, b) of posixpath: b alone when it is absolute, else a and
\* b with one "/" between them unless a is empty or ends with "/"
PathJoin(a, b) ==
    IF b # << >> /\ b[1] = "/" THEN b
    ELSE IF a = << >> \/ a[Len(a)] = "/" THEN a \o b
    ELSE a \o <<"/">> \o b

DotJson == <<".", "j", "s", "o", "n">>

\* ------------------------------------------------------------------------
\* Outcomes of the external services
\* ------------------------------------------------------------------------
OptionalInfoKeys ==
    {"upload_date", "view_count", "like_count", "duration", "description",
     "tags", "categories"}

UploadDate == <<"2", "0", "2", "3", "0", "1", "0", "1">>

\* title and channel the providers report for every video of the model
Title ==
    <<"T", "i", "t", "l", "e">>

Channel ==
    <<"C", "h", "a", "n", "n", "e", "l">>

\* info dicts ydl.extract_info(url, download=False) may return: the provider
\* knows a video only under a URL that carries its id, and reports that id;
\* an optional key that is missing or None is left out of the record
Infos(url) ==
    IF "value" \in DOMAIN extract_video_id(url)
    THEN {[id |-> extract_video_id(url).value, title |-> Title,
           channel |-> Channel],
          [id |-> extract_video_id(url).value, title |-> Title,
           channel |-> Channel, upload_date |-> UploadDate]}
    ELSE {}

\* caption tracks YouTubeTranscriptApi.get_transcript may return
CaptionTracks ==
    {<< >>,
     <<[text |-> "c1", start |-> 0, duration |-> 2000],
       [text |-> "c2", start |-> 2000, duration |-> 2000]>>}

\* a segment of a verbose_json transcription reply
Seg(t, s, e) == [text |-> t, start |-> s, end |-> e]

\* replies of the transcription API: chronological, times from chunk start
AllReplies ==
    {<<Seg("a", 0, 400)>>,
     <<Seg("b", 100, 500), Seg("c", 500, 900)>>}

\* the replies that fit a chunk of dur milliseconds
Replies(dur) ==
    {r \in AllReplies : r = << >> \/ r[Len(r)]["end"] <= dur}

\* lengths len(audio) of the decoded audio, in milliseconds
AudioLens == {0, 1000, 1500, INITIAL_CHUNK_DURATION + 1000}

\* os.path.getsize of an exported chunk
ChunkSizes == {MAX_FILE_SIZE, MAX_FILE_SIZE + 1}

\* replies of the secondary provider and of its stream
CobaltOutcomes ==
    {"ok", "status_not_200", "invalid_json", "missing_url_key",
     "request_error", "stream_http_error"}

\* raw entries of info["entries"]: with or without an "id" key
EntryKinds == {"entry", "no_id"}

\* datetime.datetime.now().strftime("%Y%m%d")
Today == <<"2", "0", "2", "6", "1", "0", "2", "9">>

\* ------------------------------------------------------------------------
\* State
\* ------------------------------------------------------------------------
VARIABLES
    url,            \* argument of process_url
    max_retries,    \* self.configs["max_retries"]
    has_client,     \* load_configs has set self.client
    pc,             \* position of the run
    raised,         \* exception that escaped process_url, or "none"
    result,         \* value returned by process_url
    in_playlist,    \* the run is inside process_playlist
    playlist_info,  \* get_playlist_info(url)
    idx,            \* index of the playlist entry being processed
    results,        \* results list of process_playlist
    cur_url,        \* argument of process_single_video
    video_info,     \* self.video_info
    attempts,       \* iterations done of the get_video_info retry loop
    ret,            \* value returned by process_single_video
    files,          \* JSON files under output_dir: set of [path, content]
    audio_exists,   \* <output_dir>/<video_id>.mp3 exists
    audio_len,      \* len(audio)
    start,          \* chunk cursor
    end,            \* candidate end
    chunk_file,     \* size of temp_chunk.mp3, -1 when the file does not exist
    transcripts,    \* segments collected so far
    oversize,       \* oversize encodings seen for this video
    oversize_bound, \* bound of the run on oversize encodings per video
    fit_limit,      \* encoder: longest slice (ms) that fits the ceiling, or
                    \* Unconstrained when sizes do not follow the duration
    dispatched,     \* handler calls made by process_url: [handler, arg]
    fetched,        \* info dict the metadata provider returned for this video
    downloads,      \* download requests made for this video, in order
    audio_file,     \* path download_audio returned for this video, or None
    job_pc,         \* concurrent jobs: position of each job in the chunk loop
    job_chunks,     \* concurrent jobs: chunks each job has completed
    job_shrinks,    \* concurrent jobs: oversize encodings each job has seen
    job_result,     \* concurrent jobs: what each job returned
    job_open,       \* concurrent jobs: the chunk file each job holds open
    submitted,      \* concurrent jobs: per job, the writers of the chunk
                    \* files it handed to the transcription API
    disk,           \* concurrent jobs: file name -> job whose export wrote
                    \* the present content, Absent when there is no file
    captions,       \* track returned by the captions provider for this video
    calls,          \* external calls made for this video
    chunks,         \* chunks submitted with success: <<start, end, size>>
    replies         \* replies of the transcription API, in submission order

vars ==
    <<url, max_retries, has_client, pc, raised, result, in_playlist,
      playlist_info, idx,
      results, cur_url, video_info, attempts, ret, files, audio_exists,
      audio_len, start, end, chunk_file, transcripts, oversize,
      oversize_bound, fit_limit, dispatched, fetched, downloads,
      audio_file, job_pc, job_chunks, job_shrinks, job_result, job_open,
      submitted, disk, captions, calls, chunks, replies>>

\* the inputs of the run
configVars == <<url, max_retries, has_client, oversize_bound, fit_limit>>

playlistVars == <<in_playlist, playlist_info, idx, results>>

chunkVars == <<audio_len, start, end, chunk_file, transcripts, oversize>>

\* the state of the jobs that share an output directory
jobVars ==
    <<job_pc, job_chunks, job_shrinks, job_result, job_open, submitted, disk>>

Jobs == {1, 2}

\* os.path.join(self.configs["output_dir"], "temp_chunk.mp3")
ChunkFileName(job) ==
    PathJoin(OutputDir,
             <<"t", "e", "m", "p", "_", "c", "h", "u", "n", "k", ".", "m",
               "p", "3">>)

ChunkFileNames == {ChunkFileName(j) : j \in Jobs}

Absent == 0

\* a job that holds no chunk file open
NotOpen == [open |-> FALSE]

\* the jobs as they are before process_and_transcribe_audio is entered
JobsAt(p) ==
    /\ job_pc = [j \in Jobs |-> p]
    /\ job_chunks = [j \in Jobs |-> 0]
    /\ job_shrinks = [j \in Jobs |-> 0]
    /\ job_result = [j \in Jobs |-> "none"]
    /\ job_open = [j \in Jobs |-> NotOpen]
    /\ submitted = [j \in Jobs |-> << >>]
    /\ disk = [n \in ChunkFileNames |-> Absent]

NoCalls ==
    [metadata |-> 0, captions |-> 0, primary |-> 0, secondary |-> 0,
     transcribe |-> 0]

Called(what) == [calls EXCEPT ![what] = @ + 1]

\* marker for "the captions provider returned no track"
NoCaptions == [got |-> FALSE]

\* marker for "the metadata provider has returned no info dict"
NoInfo == [got |-> FALSE]

\* fit_limit of an encoder whose sizes do not follow the duration
Unconstrained == -1

Init ==
    /\ url \in Urls
    /\ \/ \* the configuration file was read: its values, and self.client
          /\ max_retries \in 0..MaxRetries
          /\ url = UrlPlaylist => max_retries <= MaxPlaylistRetries
          /\ has_client = TRUE
       \/ \* no file, or one that cannot be read: default_config, no client
          /\ max_retries = 1
          /\ has_client = FALSE
    /\ pc = "process_url"
    /\ raised = "none"
    /\ result = None
    /\ in_playlist = FALSE
    /\ playlist_info = << >>
    /\ idx = 0
    /\ results = << >>
    /\ cur_url = None
    /\ video_info = EmptyDict
    /\ attempts = 0
    /\ ret = None
    /\ files = {}
    /\ audio_exists = FALSE
    /\ audio_len = 0
    /\ start = 0
    /\ end = 0
    /\ chunk_file = -1
    /\ transcripts = << >>
    /\ oversize = 0
    /\ oversize_bound = MaxOversize
    /\ fit_limit = Unconstrained
    /\ dispatched = << >>
    /\ fetched = NoInfo
    /\ downloads = << >>
    /\ audio_file = None
    /\ captions = NoCaptions
    /\ calls = NoCalls
    /\ chunks = << >>
    /\ replies = << >>
    /\ JobsAt("idle")

\* fresh per-call state of process_single_video
EnterSingleVideo(u) ==
    /\ cur_url' = u
    /\ attempts' = 0
    /\ ret' = None
    /\ audio_len' = 0
    /\ start' = 0
    /\ end' = 0
    /\ transcripts' = << >>
    /\ oversize' = 0
    /\ captions' = NoCaptions
    /\ fetched' = NoInfo
    /\ downloads' = << >>
    /\ audio_file' = None
    /\ calls' = NoCalls
    /\ chunks' = << >>
    /\ replies' = << >>
    /\ pc' = "get_video_info"

\* an exception leaves process_single_video, process_playlist and process_url
Raise(exc) ==
    /\ pc' = "done"
    /\ raised' = exc

\* ------------------------------------------------------------------------
\* process_url
\* ------------------------------------------------------------------------
\* "if playlist_id: process_playlist(url) else: process_single_video(url)"
HandlerAlwaysSingle(playlist_id) == "process_single_video"
Handler(playlist_id) == IF playlist_id # None THEN "process_playlist" ELSE "process_single_video"

ProcessUrl ==
    /\ pc = "process_url"
    /\ dispatched' = Append(dispatched,
                            [handler |-> Handler(extract_playlist_id(url)),
                             arg |-> url])
    /\ IF Handler(extract_playlist_id(url)) = "process_playlist"
       THEN /\ pc' = "get_playlist_info"
            /\ in_playlist' = TRUE
            /\ UNCHANGED <<cur_url, attempts, ret, audio_len, start, end,
                           transcripts, oversize, captions, fetched,
                           downloads, audio_file, calls, chunks,
                           replies>>
       ELSE /\ EnterSingleVideo(url)
            /\ in_playlist' = FALSE
    /\ UNCHANGED <<configVars, jobVars,
                   raised, result, playlist_info, idx, results,
                   video_info, files, audio_exists, chunk_file>>

\* ------------------------------------------------------------------------
\* get_playlist_info and the loop of process_playlist
\* ------------------------------------------------------------------------
\* the i-th raw entry of info["entries"]
RawEntry(i, kind) ==
    IF kind = "entry"
    THEN [id |-> VideoIdOf(i), title |-> Title, channel |-> Channel]
    ELSE [title |-> Title, channel |-> Channel]

HasIdAndTitle(entry) == "id" \in DOMAIN entry /\ "title" \in DOMAIN entry

PlaylistEntry(entry) ==
    [video_id |-> entry.id,
     video_title |-> entry.title,
     channel_title |-> IF "channel" \in DOMAIN entry THEN entry.channel
                       ELSE "Unknown Channel"]

\* the list comprehension of get_playlist_info
get_playlist_info(entries) ==
    LET kept == SelectSeq(entries, HasIdAndTitle)
    IN  [i \in 1..Len(kept) |-> PlaylistEntry(kept[i])]

\* process_playlist up to the first call of process_single_video
StartPlaylist(info) ==
    /\ playlist_info' = info
    /\ results' = << >>
    /\ IF info = << >>
       THEN /\ pc' = "done"
            /\ result' = << >>
            /\ idx' = 0
            /\ UNCHANGED <<cur_url, attempts, ret, audio_len, start, end,
                           transcripts, oversize, captions, fetched,
                           downloads, audio_file, calls, chunks,
                           replies>>
       ELSE /\ idx' = 1
            /\ EnterSingleVideo(WatchUrl(info[1].video_id))
            /\ UNCHANGED result

GetPlaylistInfo ==
    /\ pc = "get_playlist_info"
    /\ \/ \E n \in 0..MaxPlaylist : \E kinds \in [1..n -> EntryKinds] :
            StartPlaylist(get_playlist_info([i \in 1..n |-> RawEntry(i, kinds[i])]))
       \/ \* yt_dlp.utils.DownloadError
          StartPlaylist(<< >>)
    /\ UNCHANGED <<configVars, jobVars,
                   dispatched, raised, in_playlist, video_info, files,
                   audio_exists, chunk_file>>

\* results.append(result) and the next iteration, or return results
PlaylistCollect ==
    /\ pc = "video_returned"
    /\ in_playlist
    /\ results' = Append(results, ret)
    /\ IF idx < Len(playlist_info)
       THEN /\ idx' = idx + 1
            /\ EnterSingleVideo(WatchUrl(playlist_info[idx + 1].video_id))
            /\ UNCHANGED result
       ELSE /\ pc' = "done"
            /\ result' = results'
            /\ UNCHANGED <<idx, cur_url, attempts, ret, audio_len, start, end,
                           transcripts, oversize, captions, fetched,
                           downloads, audio_file, calls, chunks,
                           replies>>
    /\ UNCHANGED <<configVars, jobVars,
                   dispatched, raised, in_playlist, playlist_info,
                   video_info, files, audio_exists, chunk_file>>

\* process_url returns what process_single_video returned
SingleVideoReturn ==
    /\ pc = "video_returned"
    /\ ~in_playlist
    /\ pc' = "done"
    /\ result' = ret
    /\ UNCHANGED <<configVars, jobVars,
                   dispatched, raised, playlistVars, cur_url,
                   video_info, attempts, ret, files, audio_exists, chunkVars,
                   captions, fetched,
                   downloads, audio_file, calls, chunks, replies>>

\* ------------------------------------------------------------------------
\* get_video_info and the first lines of get_transcript
\* ------------------------------------------------------------------------
\* the metadata dict without its None values
Metadata(info) ==
    [k \in {"video_id", "video_title", "channel_title"}
           \cup (OptionalInfoKeys \cap DOMAIN info) |->
        CASE k = "video_id" -> info.id
          [] k = "video_title" -> info.title
          [] k = "channel_title" -> info.channel
          [] OTHER -> info[k]]

\* get_transcript reads video_id, channel_title and video_title of
\* self.video_info before it queries the captions provider
TranscriptKeys == {"video_id", "channel_title", "video_title"}

\* process_single_video from the return of get_video_info on
AfterVideoInfo(info) ==
    /\ video_info' = info
    /\ IF TranscriptKeys \subseteq DOMAIN info
       THEN /\ pc' = "captions_preferred"
            /\ UNCHANGED raised
       ELSE Raise("KeyError")

\* "for _ in range(max_retries)": another iteration after `made` of them
MoreAttemptsOneExtra(made, max) == made <= max
MoreAttempts(made, max) == made < max

\* get_video_info: one iteration of the retry loop, or, when range(max_retries)
\* has no iteration left on entry, the "return {}" after the loop
GetVideoInfo ==
    /\ pc = "get_video_info"
    /\ IF MoreAttempts(attempts, max_retries)
       THEN /\ calls' = Called("metadata")
            /\ attempts' = attempts + 1
            /\ \/ \E info \in Infos(cur_url) :
                    /\ fetched' = [got |-> TRUE, info |-> info]
                    /\ AfterVideoInfo(Metadata(info))
               \/ \* yt_dlp.utils.DownloadError
                  /\ UNCHANGED fetched
                  /\ IF MoreAttempts(attempts + 1, max_retries)
                     THEN UNCHANGED <<pc, raised, video_info>>
                     ELSE AfterVideoInfo(EmptyDict)
       ELSE /\ AfterVideoInfo(EmptyDict)
            /\ UNCHANGED <<calls, attempts, fetched>>
    /\ UNCHANGED <<configVars, jobVars,
                   dispatched, result, playlistVars, cur_url, ret,
                   files, audio_exists, chunkVars, downloads, audio_file,
                   captions, chunks, replies>>

\* ------------------------------------------------------------------------
\* get_transcript
\* ------------------------------------------------------------------------
\* the result dict of get_transcript
CaptionResult(info, track) ==
    [channel_id |-> info.channel_title,
     video_title |-> info.video_title,
     transcript |-> track]

\* upload_date[:8], or today's date when there is no upload date
FormattedDate(info) ==
    IF "upload_date" \in DOMAIN info /\ info.upload_date # << >>
    THEN SubSeq(info.upload_date, 1, Min(8, Len(info.upload_date)))
    ELSE Today

\* os.path.join(os.path.join(output_dir, channel_title),
\*              f"{formatted_date}_{video_id}.json")
SubtitleFile(info) ==
    PathJoin(PathJoin(OutputDir, info.channel_title),
             FormattedDate(info) \o <<"_">> \o info.video_id \o DotJson)

\* content of a file that open(path, "w") has created or truncated
EmptyFile == << >>

\* open(path, "w") and json.dump(content)
WriteFile(fs, path, content) ==
    {f \in fs : f.path # path} \cup {[path |-> path, content |-> content]}

\* first query: languages=["zh-TW", "zh-CN", "zh"]
CaptionsPreferred ==
    /\ pc = "captions_preferred"
    /\ calls' = Called("captions")
    /\ \/ \E track \in CaptionTracks :
            /\ captions' = [got |-> TRUE, track |-> track]
            /\ pc' = "save_subtitle"
            /\ UNCHANGED raised
       \/ \* TranscriptsDisabled, NoTranscriptAvailable
          /\ pc' = "captions_any"
          /\ UNCHANGED <<raised, captions>>
       \/ \* any other exception of the captions provider
          /\ Raise("CaptionsError")
          /\ UNCHANGED captions
    /\ UNCHANGED <<configVars, jobVars,
                   dispatched, result, playlistVars, cur_url,
                   video_info, attempts, ret, files, audio_exists, chunkVars,
                   fetched, downloads, audio_file, chunks, replies>>

\* second query: no language restriction; any exception gives None
CaptionsAny ==
    /\ pc = "captions_any"
    /\ calls' = Called("captions")
    /\ \/ \E track \in CaptionTracks :
            /\ captions' = [got |-> TRUE, track |-> track]
            /\ pc' = "save_subtitle"
       \/ /\ pc' = "download_audio"
          /\ UNCHANGED captions
    /\ UNCHANGED <<configVars, jobVars,
                   dispatched, raised, result, playlistVars, cur_url,
                   video_info, attempts, ret, files, audio_exists, chunkVars,
                   fetched, downloads, audio_file, chunks, replies>>

\* the save_subtitle block, then "transcript.update(self.video_info)" and
\* the return of process_single_video
SaveSubtitle ==
    /\ pc = "save_subtitle"
    /\ \/ /\ files' = WriteFile(files, SubtitleFile(video_info),
                                CaptionResult(video_info, captions.track))
          /\ ret' = Merge(CaptionResult(video_info, captions.track), video_info)
          /\ pc' = "video_returned"
          /\ UNCHANGED raised
       \/ \* os.makedirs or open fails
          /\ Raise("OSError")
          /\ UNCHANGED <<files, ret>>
       \/ \* json.dump fails on the file that open has created or truncated
          /\ files' = WriteFile(files, SubtitleFile(video_info), EmptyFile)
          /\ Raise("OSError")
          /\ UNCHANGED ret
    /\ UNCHANGED <<configVars, jobVars,
                   dispatched, result, playlistVars, cur_url,
                   video_info, attempts, audio_exists, chunkVars, captions, fetched,
                   downloads, audio_file,
                   calls, chunks, replies>>

\* ------------------------------------------------------------------------
\* download_audio
\* ------------------------------------------------------------------------
\* the metadata returned as it is, without the error marker
DownloadFailedUnmarked(info) == info

\* {"error": "Failed to download audio", **self.video_info}
DownloadFailedResult(info) == Merge([error |-> "Failed to download audio"], info)

\* f"{self.configs['output_dir']}/{video_id}.mp3"
AudioFile(video_id) ==
    OutputDir \o <<"/">> \o video_id \o <<".", "m", "p", "3">>

\* one request to a download provider for the watch URL of video_id
Download(provider, video_id, outcome) ==
    [provider |-> provider, url |-> WatchUrl(video_id), outcome |-> outcome]

\* ydl.download returns, or raises yt_dlp.utils.DownloadError
PrimaryOutcomes == {"ok", "DownloadError"}

\* the fallback entered whatever the primary provider did
UsesSecondaryAlways(outcome) == TRUE
\* "except yt_dlp.utils.DownloadError": the only way into the fallback
UsesSecondary(outcome) == outcome = "DownloadError"

\* ydl.download([...]) of the primary provider
DownloadPrimary ==
    /\ pc = "download_audio"
    /\ calls' = Called("primary")
    /\ \E outcome \in PrimaryOutcomes :
         /\ downloads' = Append(downloads,
                                Download("primary", video_info.video_id,
                                         outcome))
         /\ audio_exists' = IF outcome = "ok" THEN TRUE ELSE audio_exists
         /\ IF UsesSecondary(outcome)
            THEN /\ pc' = "cobalt"
                 /\ UNCHANGED audio_file
            ELSE /\ pc' = "decode_audio"
                 /\ audio_file' = AudioFile(video_info.video_id)
    /\ UNCHANGED <<configVars, jobVars,
                   dispatched, raised, result, playlistVars, cur_url,
                   video_info, attempts, ret, files, chunkVars, captions, fetched,
                   chunks, replies>>

\* the exception a Cobalt outcome raises inside the inner try, or "none"
CobaltException(outcome) ==
    CASE outcome = "invalid_json" -> "ValueError"
      [] outcome = "missing_url_key" -> "KeyError"
      [] outcome = "request_error" -> "RequestException"
      [] outcome = "stream_http_error" -> "HTTPError"
      [] OTHER -> "none"

\* "except ValueError" is the only handler of the inner try
CobaltCaught(exc) == exc = "ValueError"

\* the fallback to the Cobalt API after a DownloadError
DownloadCobalt ==
    /\ pc = "cobalt"
    /\ calls' = Called("secondary")
    /\ \E outcome \in CobaltOutcomes :
         LET exc == CobaltException(outcome) IN
         /\ downloads' = Append(downloads,
                                Download("secondary", video_info.video_id,
                                         outcome))
         /\ IF outcome = "ok"
            THEN /\ audio_exists' = TRUE
                 /\ audio_file' = AudioFile(video_info.video_id)
                 /\ pc' = "decode_audio"
                 /\ UNCHANGED <<raised, ret>>
            ELSE IF exc = "none" \/ CobaltCaught(exc)
            THEN \* download_audio returns None
                 /\ ret' = DownloadFailedResult(video_info)
                 /\ pc' = "video_returned"
                 /\ UNCHANGED <<raised, audio_exists, audio_file>>
            ELSE /\ Raise(exc)
                 /\ UNCHANGED <<ret, audio_exists, audio_file>>
    /\ UNCHANGED <<configVars, jobVars,
                   dispatched, result, playlistVars, cur_url,
                   video_info, attempts, files, chunkVars, captions, fetched,
                   chunks, replies>>

\* ------------------------------------------------------------------------
\* process_and_transcribe_audio
\* ------------------------------------------------------------------------
\* the except clause returning an empty transcript in place of the error
ErrorResultAsTranscript(info, message) == [video_id |-> info.video_id, transcript |-> << >>]

\* {"video_id": video_info["video_id"], "error": str(e)}
ErrorResult(info, message) == [video_id |-> info.video_id, error |-> message]

\* str(e) of the AttributeError that reading an unset self.client raises
NoClientMessage == "'YoutubeAnalyzer' object has no attribute 'client'"

\* the candidate without the clamp to the end of the audio
FirstCandidateNoClamp(s, len) == s + INITIAL_CHUNK_DURATION

\* end = min(start + INITIAL_CHUNK_DURATION, len(audio))
FirstCandidate(s, len) == Min(s + INITIAL_CHUNK_DURATION, len)

\* the comparison against a ceiling that is one byte too high
FitsCeilingOffByOne(size) == size <= MAX_FILE_SIZE + 1

\* os.path.getsize(chunk_file) <= MAX_FILE_SIZE
FitsCeiling(size) == size <= MAX_FILE_SIZE

\* a shrink step that leaves the candidate as it is
HalveKeeps(s, e) == e

\* end = start + (end - start) // 2
Halve(s, e) == s + (e - s) \div 2

\* the guard with a sub-second floor: a halved 1 s candidate is retried
TooSmallHalfSecond(s, e) == e - s < MIN_CHUNK_DURATION \div 2

\* if end - start < 1000: raise ValueError
TooSmall(s, e) == e - s < MIN_CHUNK_DURATION

\* the cursor skips the millisecond at the chunk boundary
AdvanceCursorSkip(s, e) == e + 1

\* start = end
AdvanceCursor(s, e) == e

\* transcripts.extend(response.segments)
Extend(ts, segments) == ts \o segments

\* one entry of result["transcript"]
ConvertSegment(segment) ==
    [text |-> segment.text,
     start |-> segment.start,
     duration |-> segment["end"] - segment.start]

\* the list comprehension that builds result["transcript"]
ConvertSegments(ts) == [i \in 1..Len(ts) |-> ConvertSegment(ts[i])]

TranscriptResult(info, ts) ==
    [video_id |-> info.video_id,
     video_title |-> info.video_title,
     channel_title |-> info.channel_title,
     transcript |-> ConvertSegments(ts)]

\* os.path.join(output_dir,
\*              f"{channel_title}_{video_title}_transcript.json")
TranscriptFile(info) ==
    PathJoin(OutputDir,
             info.channel_title \o <<"_">> \o info.video_title
             \o <<"_", "t", "r", "a", "n", "s", "c", "r", "i", "p", "t">>
             \o DotJson)

\* "while start < len(audio)": the next candidate, or the end of the loop
LoopHead(s, len) ==
    IF s < len
    THEN /\ end' = FirstCandidate(s, len)
         /\ pc' = "export_chunk"
    ELSE /\ end' = end
         /\ pc' = "save_transcript"

\* AudioSegment.from_mp3(audio_file), transcripts = [], start = 0
DecodeAudio ==
    /\ pc = "decode_audio"
    /\ \/ \E len \in AudioLens :
            /\ audio_len' = len
            /\ start' = 0
            /\ transcripts' = << >>
            /\ LoopHead(0, len)
            /\ UNCHANGED <<ret, audio_exists>>
       \/ \* the file cannot be decoded: except Exception, then finally
          /\ ret' = ErrorResult(video_info, "decode error")
          /\ audio_exists' = FALSE
          /\ pc' = "video_returned"
          /\ UNCHANGED <<audio_len, start, end, transcripts>>
    /\ UNCHANGED <<configVars, jobVars,
                   dispatched, raised, result, playlistVars, cur_url,
                   video_info, attempts, files, chunk_file, oversize,
                   captions, fetched,
                   downloads, audio_file, calls, chunks, replies>>

\* os.path.getsize(chunk_file) after chunk.export: any size, or, for an
\* encoder whose size does not decrease with the duration, a size within the
\* ceiling exactly for slices of at most fit_limit ms
EncodedSizes(duration) ==
    IF fit_limit = Unconstrained THEN ChunkSizes
    ELSE IF duration <= fit_limit THEN {MAX_FILE_SIZE}
    ELSE {MAX_FILE_SIZE + 1}

\* one iteration of the "while True" shrink loop
ExportChunk ==
    /\ pc = "export_chunk"
    /\ \E size \in EncodedSizes(end - start) :
         IF FitsCeiling(size)
         THEN /\ chunk_file' = size
              /\ pc' = "transcribe_chunk"
              /\ UNCHANGED <<end, oversize, ret, audio_exists>>
         ELSE /\ oversize < oversize_bound
              /\ oversize' = oversize + 1
              /\ end' = Halve(start, end)
              /\ chunk_file' = -1
              /\ IF TooSmall(start, Halve(start, end))
                 THEN /\ ret' = ErrorResult(video_info,
                                   "Unable to create a small enough chunk")
                      /\ audio_exists' = FALSE
                      /\ pc' = "video_returned"
                 ELSE /\ pc' = "export_chunk"
                      /\ UNCHANGED <<ret, audio_exists>>
    /\ UNCHANGED <<configVars, jobVars,
                   dispatched, raised, result, playlistVars, cur_url,
                   video_info, attempts, files, audio_len, start, transcripts,
                   captions, fetched,
                   downloads, audio_file, calls, chunks, replies>>

\* client.audio.transcriptions.create, extend, remove, start = end
TranscribeChunk ==
    /\ pc = "transcribe_chunk"
    /\ IF has_client
       THEN /\ calls' = Called("transcribe")
            /\ chunks' = Append(chunks, [start |-> start, end |-> end,
                                         size |-> chunk_file])
            /\ \/ \E reply \in Replies(end - start) :
                    /\ replies' = Append(replies, reply)
                    /\ transcripts' = Extend(transcripts, reply)
                    /\ chunk_file' = -1
                    /\ start' = AdvanceCursor(start, end)
                    /\ LoopHead(AdvanceCursor(start, end), audio_len)
                    /\ UNCHANGED <<ret, audio_exists>>
               \/ \* the API call fails: except Exception, then finally
                  /\ ret' = ErrorResult(video_info, "transcription error")
                  /\ audio_exists' = FALSE
                  /\ pc' = "video_returned"
                  /\ UNCHANGED <<replies, transcripts, chunk_file, start,
                                 end>>
       ELSE \* self.client raises AttributeError before any call is made
            /\ ret' = ErrorResult(video_info, NoClientMessage)
            /\ audio_exists' = FALSE
            /\ pc' = "video_returned"
            /\ UNCHANGED <<calls, chunks, replies, transcripts, chunk_file,
                           start, end>>
    /\ UNCHANGED <<configVars, jobVars,
                   dispatched, raised, result, playlistVars, cur_url,
                   video_info, attempts, files, audio_len, oversize, captions, fetched,
                   downloads, audio_file>>

\* build the result, write the JSON file, return; finally remove the audio
SaveTranscript ==
    /\ pc = "save_transcript"
    /\ \/ /\ files' = WriteFile(files, TranscriptFile(video_info),
                                TranscriptResult(video_info, transcripts))
          /\ ret' = TranscriptResult(video_info, transcripts)
       \/ \* open fails: except Exception
          /\ ret' = ErrorResult(video_info, "write error")
          /\ UNCHANGED files
       \/ \* json.dump fails on the file that open has created or truncated
          /\ files' = WriteFile(files, TranscriptFile(video_info), EmptyFile)
          /\ ret' = ErrorResult(video_info, "write error")
    /\ audio_exists' = FALSE
    /\ pc' = "video_returned"
    /\ UNCHANGED <<configVars, jobVars,
                   dispatched, raised, result, playlistVars, cur_url,
                   video_info, attempts, chunkVars, captions, fetched,
                   downloads, audio_file, calls, chunks,
                   replies>>

\* ------------------------------------------------------------------------
\* Specification
\* ------------------------------------------------------------------------
Next ==
    \/ ProcessUrl
    \/ GetPlaylistInfo
    \/ PlaylistCollect
    \/ SingleVideoReturn
    \/ GetVideoInfo
    \/ CaptionsPreferred
    \/ CaptionsAny
    \/ SaveSubtitle
    \/ DownloadPrimary
    \/ DownloadCobalt
    \/ DecodeAudio
    \/ ExportChunk
    \/ TranscribeChunk
    \/ SaveTranscript

Spec == Init /\ [][Next]_vars

TypeOK ==
    /\ pc \in {"process_url", "get_playlist_info", "get_video_info",
               "captions_preferred", "captions_any", "save_subtitle",
               "download_audio", "cobalt", "decode_audio", "export_chunk",
               "transcribe_chunk", "save_transcript", "video_returned",
               "done", "extract_video_id"}
    /\ attempts \in 0..max_retries
    /\ idx \in 0..Len(playlist_info)
    /\ chunk_file \in {-1} \cup ChunkSizes
    /\ oversize \in 0..oversize_bound

\* ------------------------------------------------------------------------
\* The chunk loop on its own
\* ------------------------------------------------------------------------
\* audio lengths around the 1 s guard and around the 10 minute candidate
ChunkerLens ==
    {0, 1, 999, 1000, 1001, 1999, 2000, 2001, 4000, 4001,
     INITIAL_CHUNK_DURATION, INITIAL_CHUNK_DURATION + 1,
     INITIAL_CHUNK_DURATION + 1000, 2 * INITIAL_CHUNK_DURATION + 1}

\* encoders: a 1 s slice does not fit, just fits, fits with room to spare
FitLimits == {999, 1000, 1500, 2000}

\* process_and_transcribe_audio after AudioSegment.from_mp3 has returned an
\* audio of any of these lengths for a video whose captions are unavailable
\* and whose audio the primary provider delivered
InitChunker ==
    /\ url = UrlVideo
    /\ max_retries = 1
    /\ has_client \in BOOLEAN
    /\ oversize_bound = MaxHalvings
    /\ raised = "none"
    /\ result = None
    /\ in_playlist = FALSE
    /\ playlist_info = << >>
    /\ idx = 0
    /\ results = << >>
    /\ cur_url = UrlVideo
    /\ fit_limit \in {Unconstrained} \cup FitLimits
    /\ dispatched = <<[handler |-> "process_single_video", arg |-> UrlVideo]>>
    /\ \E info \in Infos(UrlVideo) :
         /\ fetched = [got |-> TRUE, info |-> info]
         /\ video_info = Metadata(info)
    /\ downloads = <<Download("primary", VideoIdOf(1), "ok")>>
    /\ audio_file = AudioFile(VideoIdOf(1))
    /\ attempts = 1
    /\ ret = None
    /\ files = {}
    /\ audio_exists = TRUE
    /\ audio_len \in ChunkerLens
    /\ start = 0
    /\ end = IF 0 < audio_len THEN FirstCandidate(0, audio_len) ELSE 0
    /\ pc = IF 0 < audio_len THEN "export_chunk" ELSE "save_transcript"
    /\ chunk_file = -1
    /\ transcripts = << >>
    /\ oversize = 0
    /\ captions = NoCaptions
    /\ calls = [metadata |-> 1, captions |-> 2, primary |-> 1,
                secondary |-> 0, transcribe |-> 0]
    /\ chunks = << >>
    /\ replies = << >>
    /\ JobsAt("idle")

NextChunker ==
    \/ ExportChunk
    \/ TranscribeChunk
    \/ SaveTranscript

SpecChunker == InitChunker /\ [][NextChunker]_vars

\* the runs of the chunk loop that are followed to their end: short audios
\* with every encoder, and audios of ten minutes and more with an encoder
\* that rejects every slice of 1 s or more and with one that accepts every
\* candidate
TerminationLens == {0, 1, 999, 1000, 1001, 1999, 2000, 2001, 3000, 4001}

TerminationRuns ==
    (TerminationLens \X ({Unconstrained} \cup FitLimits))
    \cup ({INITIAL_CHUNK_DURATION, INITIAL_CHUNK_DURATION + 1000,
           2 * INITIAL_CHUNK_DURATION + 1}
          \X {999, INITIAL_CHUNK_DURATION})

\* as InitChunker, with no bound of the run on the halvings: a video of
\* len(audio) ms never sees len(audio) oversize encodings
InitTermination ==
    /\ url = UrlVideo
    /\ max_retries = 1
    /\ has_client \in BOOLEAN
    /\ \E run \in TerminationRuns :
         /\ audio_len = run[1]
         /\ fit_limit = run[2]
    /\ oversize_bound = audio_len
    /\ raised = "none"
    /\ result = None
    /\ in_playlist = FALSE
    /\ playlist_info = << >>
    /\ idx = 0
    /\ results = << >>
    /\ cur_url = UrlVideo
    /\ dispatched = <<[handler |-> "process_single_video", arg |-> UrlVideo]>>
    /\ \E info \in Infos(UrlVideo) :
         /\ fetched = [got |-> TRUE, info |-> info]
         /\ video_info = Metadata(info)
    /\ downloads = <<Download("primary", VideoIdOf(1), "ok")>>
    /\ audio_file = AudioFile(VideoIdOf(1))
    /\ attempts = 1
    /\ ret = None
    /\ files = {}
    /\ audio_exists = TRUE
    /\ start = 0
    /\ end = IF 0 < audio_len THEN FirstCandidate(0, audio_len) ELSE 0
    /\ pc = IF 0 < audio_len THEN "export_chunk" ELSE "save_transcript"
    /\ chunk_file = -1
    /\ transcripts = << >>
    /\ oversize = 0
    /\ captions = NoCaptions
    /\ calls = [metadata |-> 1, captions |-> 2, primary |-> 1,
                secondary |-> 0, transcribe |-> 0]
    /\ chunks = << >>
    /\ replies = << >>
    /\ JobsAt("idle")

\* the function is run by one thread that keeps executing: a step that can
\* be taken is taken
SpecTermination ==
    InitTermination /\ [][NextChunker]_vars /\ WF_vars(NextChunker)

\* ------------------------------------------------------------------------
\* extract_video_id on its own
\* ------------------------------------------------------------------------
\* what comes before the id: the URL forms of the tests, a host that is not
\* YouTube, "youtu.be" with another character or a newline for the dot, a
\* playlist URL, and nothing at all
ExtractPrefixes ==
    {<<"h", "t", "t", "p", "s", ":", "/", "/", "w", "w", "w", ".", "y",
       "o", "u", "t", "u", "b", "e", ".", "c", "o", "m", "/", "w", "a",
       "t", "c", "h", "?", "v", "=">>,
     <<"h", "t", "t", "p", "s", ":", "/", "/", "y", "o", "u", "t", "u",
       ".", "b", "e", "/">>,
     <<"h", "t", "t", "p", "s", ":", "/", "/", "w", "w", "w", ".", "y",
       "o", "u", "t", "u", "b", "e", ".", "c", "o", "m", "/", "e", "m",
       "b", "e", "d", "/">>,
     <<"h", "t", "t", "p", "s", ":", "/", "/", "w", "w", "w", ".", "y",
       "o", "u", "t", "u", "b", "e", ".", "c", "o", "m", "/", "v", "/">>,
     << >>,
     <<"h", "t", "t", "p", "s", ":", "/", "/", "w", "w", "w", ".", "e",
       "x", "a", "m", "p", "l", "e", ".", "c", "o", "m", "/">>,
     <<"h", "t", "t", "p", "s", ":", "/", "/", "y", "o", "u", "t", "u",
       "X", "b", "e", "/">>,
     <<"h", "t", "t", "p", "s", ":", "/", "/", "y", "o", "u", "t", "u",
       "\n", "b", "e", "/">>,
     <<"h", "t", "t", "p", "s", ":", "/", "/", "w", "w", "w", ".", "y",
       "o", "u", "t", "u", "b", "e", ".", "c", "o", "m", "/", "p", "l",
       "a", "y", "l", "i", "s", "t", "?", "l", "i", "s", "t", "=">>,
     <<"h", "t", "t", "p", "s", ":", "/", "/", "w", "w", "w", ".", "e",
       "x", "a", "m", "p", "l", "e", ".", "c", "o", "m">>}

\* an id of 11 characters, one too short, one too long, one with a character
\* outside [0-9A-Za-z_-], and none
ExtractIds ==
    {<<"X", "u", "z", "K", "4", "Y", "F", "6", "9", "t", "o">>,
     <<"X", "u", "z", "K", "4", "Y", "F", "6", "9", "t">>,
     <<"X", "u", "z", "K", "4", "Y", "F", "6", "9", "t", "o", "0">>,
     <<"X", "u", "z", "!", "4", "Y", "F", "6", "9", "t", "o">>,
     << >>}

\* what comes after the id: nothing, a query parameter, a playlist id, and
\* a newline that ends the string
ExtractSuffixes ==
    {<< >>,
     <<"\n">>,
     <<"&", "t", "=", "1", "0">>,
     <<"&", "l", "i", "s", "t", "=", "P", "L", "1">>}

ExtractUrls ==
    {p \o i \o x : p \in ExtractPrefixes, i \in ExtractIds,
                    x \in ExtractSuffixes}

\* a fresh analyzer and a call extract_video_id(url)
InitExtract ==
    /\ url \in ExtractUrls
    /\ max_retries = 1
    /\ has_client = TRUE
    /\ pc = "extract_video_id"
    /\ raised = "none"
    /\ result = None
    /\ in_playlist = FALSE
    /\ playlist_info = << >>
    /\ idx = 0
    /\ results = << >>
    /\ cur_url = None
    /\ video_info = EmptyDict
    /\ attempts = 0
    /\ ret = None
    /\ files = {}
    /\ audio_exists = FALSE
    /\ audio_len = 0
    /\ start = 0
    /\ end = 0
    /\ chunk_file = -1
    /\ transcripts = << >>
    /\ oversize = 0
    /\ oversize_bound = MaxOversize
    /\ fit_limit = Unconstrained
    /\ dispatched = << >>
    /\ fetched = NoInfo
    /\ downloads = << >>
    /\ audio_file = None
    /\ captions = NoCaptions
    /\ calls = NoCalls
    /\ chunks = << >>
    /\ replies = << >>
    /\ JobsAt("idle")

\* the call returns match.group(1) or raises
ExtractVideoId ==
    /\ pc = "extract_video_id"
    /\ IF "exc" \in DOMAIN extract_video_id(url)
       THEN /\ Raise(extract_video_id(url).exc)
            /\ UNCHANGED ret
       ELSE /\ ret' = extract_video_id(url).value
            /\ pc' = "done"
            /\ UNCHANGED raised
    /\ UNCHANGED <<configVars, jobVars,
                   dispatched, result, playlistVars, cur_url,
                   video_info, attempts, files, audio_exists, chunkVars,
                   captions, fetched,
                   downloads, audio_file, calls, chunks, replies>>

NextExtract == ExtractVideoId

SpecExtract == InitExtract /\ [][NextExtract]_vars

\* ------------------------------------------------------------------------
\* Two jobs in the chunk loop with one output directory
\* ------------------------------------------------------------------------
\* chunks each job has to transcribe
MaxJobChunks == 2

\* oversize encodings a job may see
MaxJobShrinks == 1

\* the variables only the sequential run uses
sequentialVars ==
    <<url, max_retries, has_client, pc, raised, result, in_playlist,
      playlist_info, idx,
      results, cur_url, video_info, attempts, ret, audio_exists,
      audio_len, start, end, chunk_file, transcripts, oversize,
      oversize_bound, fit_limit, dispatched, fetched, downloads,
      audio_file, captions, calls, chunks, replies>>

\* two calls of process_and_transcribe_audio, each about to export its
\* first chunk; the sequential run is not started
InitConcurrent ==
    /\ url = UrlVideo
    /\ max_retries = 1
    /\ has_client \in BOOLEAN
    /\ pc = "process_url"
    /\ raised = "none"
    /\ result = None
    /\ in_playlist = FALSE
    /\ playlist_info = << >>
    /\ idx = 0
    /\ results = << >>
    /\ cur_url = None
    /\ video_info = EmptyDict
    /\ attempts = 0
    /\ ret = None
    /\ files = {}
    /\ audio_exists = FALSE
    /\ audio_len = 0
    /\ start = 0
    /\ end = 0
    /\ chunk_file = -1
    /\ transcripts = << >>
    /\ oversize = 0
    /\ oversize_bound = MaxOversize
    /\ fit_limit = Unconstrained
    /\ dispatched = << >>
    /\ fetched = NoInfo
    /\ downloads = << >>
    /\ audio_file = None
    /\ captions = NoCaptions
    /\ calls = NoCalls
    /\ chunks = << >>
    /\ replies = << >>
    /\ JobsAt("export")

\* video_info of the video job j transcribes: the two videos have the same
\* channel and the same title
JobInfo(j) ==
    Metadata([id |-> VideoIdOf(j), title |-> Title, channel |-> Channel])

\* response.segments for a chunk file whose content job w exported
JobSegments(w) == <<Seg(<<"a", "b">>[w], 0, 400)>>

\* transcripts of job j after the chunks it has submitted
RECURSIVE JobTranscripts(_)
JobTranscripts(ws) ==
    IF ws = << >> THEN << >>
    ELSE Extend(JobTranscripts(SubSeq(ws, 1, Len(ws) - 1)),
                JobSegments(ws[Len(ws)]))

\* the open files after job w has exported to the existing file n when the
\* export opens the path for writing: the file is rewritten in place and
\* every job that holds it open reads the new content
Rewritten(n, w) ==
    [k \in Jobs |->
        IF job_open[k].open /\ job_open[k].linked /\ job_open[k].path = n
        THEN [job_open[k] EXCEPT !.content = w]
        ELSE job_open[k]]

\* the open files after os.remove(n), or after another file has been
\* renamed over n: a job that holds the file open keeps it, with the content
\* it had, under no name
Unlinked(n) ==
    [k \in Jobs |->
        IF job_open[k].open /\ job_open[k].linked /\ job_open[k].path = n
        THEN [job_open[k] EXCEPT !.linked = FALSE]
        ELSE job_open[k]]

\* "except Exception": the job returns {"video_id", "error": str(e)}
JobFails(j, exc) ==
    /\ job_pc' = [job_pc EXCEPT ![j] = "returned"]
    /\ job_result' = [job_result EXCEPT ![j] = exc]

\* chunk.export(chunk_file, format="mp3", bitrate="64k"): the encoder
\* library either rewrites an existing file in place or writes a new file
\* and renames it over the path
JobExport(j) ==
    /\ job_pc[j] = "export"
    /\ disk' = [disk EXCEPT ![ChunkFileName(j)] = j]
    /\ IF disk[ChunkFileName(j)] = Absent
       THEN UNCHANGED job_open
       ELSE \/ job_open' = Rewritten(ChunkFileName(j), j)
            \/ job_open' = Unlinked(ChunkFileName(j))
    /\ job_pc' = [job_pc EXCEPT ![j] = "getsize"]
    /\ UNCHANGED <<sequentialVars, files, job_chunks, job_shrinks,
                   job_result, submitted>>

\* os.path.getsize(chunk_file) <= MAX_FILE_SIZE, and the halving
JobGetsize(j) ==
    /\ job_pc[j] = "getsize"
    /\ IF disk[ChunkFileName(j)] = Absent
       THEN /\ JobFails(j, "FileNotFoundError")
            /\ UNCHANGED job_shrinks
       ELSE \/ /\ job_pc' = [job_pc EXCEPT ![j] = "open"]
               /\ UNCHANGED <<job_shrinks, job_result>>
            \/ /\ job_shrinks[j] < MaxJobShrinks
               /\ job_shrinks' = [job_shrinks EXCEPT ![j] = @ + 1]
               /\ job_pc' = [job_pc EXCEPT ![j] = "shrink"]
               /\ UNCHANGED job_result
    /\ UNCHANGED <<sequentialVars, files, job_chunks, job_open, submitted,
                   disk>>

\* os.remove(chunk_file) of an oversize chunk, then the 1 s guard
JobShrink(j) ==
    /\ job_pc[j] = "shrink"
    /\ IF disk[ChunkFileName(j)] = Absent
       THEN /\ JobFails(j, "FileNotFoundError")
            /\ UNCHANGED <<disk, job_open>>
       ELSE /\ disk' = [disk EXCEPT ![ChunkFileName(j)] = Absent]
            /\ job_open' = Unlinked(ChunkFileName(j))
            /\ \/ /\ job_pc' = [job_pc EXCEPT ![j] = "export"]
                  /\ UNCHANGED job_result
               \/ JobFails(j, "ValueError")
    /\ UNCHANGED <<sequentialVars, files, job_chunks, job_shrinks,
                   submitted>>

\* with open(chunk_file, "rb") as audio_chunk
JobOpen(j) ==
    /\ job_pc[j] = "open"
    /\ IF disk[ChunkFileName(j)] = Absent
       THEN /\ JobFails(j, "FileNotFoundError")
            /\ UNCHANGED job_open
       ELSE /\ job_open' = [job_open EXCEPT
                              ![j] = [open |-> TRUE, linked |-> TRUE,
                                      path |-> ChunkFileName(j),
                                      content |-> disk[ChunkFileName(j)]]]
            /\ job_pc' = [job_pc EXCEPT ![j] = "create"]
            /\ UNCHANGED job_result
    /\ UNCHANGED <<sequentialVars, files, job_chunks, job_shrinks,
                   submitted, disk>>

\* self.client.audio.transcriptions.create(file=audio_chunk, ...) is
\* called: without a client the attribute read raises AttributeError and the
\* with block closes the file; with one the request is made from what the
\* open file holds, whatever has happened to its name
JobCreate(j) ==
    /\ job_pc[j] = "create"
    /\ IF has_client
       THEN /\ submitted' = [submitted EXCEPT
                               ![j] = Append(@, job_open[j].content)]
            /\ job_pc' = [job_pc EXCEPT ![j] = "reply"]
            /\ UNCHANGED <<job_open, job_result>>
       ELSE /\ JobFails(j, "AttributeError")
            /\ job_open' = [job_open EXCEPT ![j] = NotOpen]
            /\ UNCHANGED submitted
    /\ UNCHANGED <<sequentialVars, files, job_chunks, job_shrinks, disk>>

\* the call returns the response or raises; the with block closes the file
JobReply(j) ==
    /\ job_pc[j] = "reply"
    /\ job_open' = [job_open EXCEPT ![j] = NotOpen]
    /\ \/ /\ job_pc' = [job_pc EXCEPT ![j] = "remove"]
          /\ UNCHANGED job_result
       \/ JobFails(j, "APIError")
    /\ UNCHANGED <<sequentialVars, files, job_chunks, job_shrinks,
                   submitted, disk>>

\* transcripts.extend(response.segments), os.remove(chunk_file),
\* start = end, and the test of the outer loop
JobRemove(j) ==
    /\ job_pc[j] = "remove"
    /\ IF disk[ChunkFileName(j)] = Absent
       THEN /\ JobFails(j, "FileNotFoundError")
            /\ UNCHANGED <<disk, job_open, job_chunks>>
       ELSE /\ disk' = [disk EXCEPT ![ChunkFileName(j)] = Absent]
            /\ job_open' = Unlinked(ChunkFileName(j))
            /\ job_chunks' = [job_chunks EXCEPT ![j] = @ + 1]
            /\ job_pc' = [job_pc EXCEPT
                            ![j] = IF job_chunks[j] + 1 < MaxJobChunks
                                   THEN "export" ELSE "save"]
            /\ UNCHANGED job_result
    /\ UNCHANGED <<sequentialVars, files, job_shrinks, submitted>>

\* the result dict and open(json_file, "w"), which creates the file or
\* truncates the one that is there; an open that fails is caught by
\* "except Exception"
JobSaveOpen(j) ==
    /\ job_pc[j] = "save"
    /\ \/ /\ files' = WriteFile(files, TranscriptFile(JobInfo(j)), EmptyFile)
          /\ job_pc' = [job_pc EXCEPT ![j] = "dump"]
          /\ UNCHANGED job_result
       \/ /\ JobFails(j, "OSError")
          /\ UNCHANGED files
    /\ UNCHANGED <<sequentialVars, job_chunks, job_shrinks, job_open,
                   submitted, disk>>

\* json.dump(result, f) and "return result"; a write that fails leaves the
\* file as it is and is caught by "except Exception"
JobDump(j) ==
    /\ job_pc[j] = "dump"
    /\ \/ /\ files' = WriteFile(files, TranscriptFile(JobInfo(j)),
                                TranscriptResult(JobInfo(j),
                                    JobTranscripts(submitted[j])))
          /\ job_pc' = [job_pc EXCEPT ![j] = "returned"]
          /\ job_result' = [job_result EXCEPT ![j] = "transcript"]
       \/ /\ JobFails(j, "OSError")
          /\ UNCHANGED files
    /\ UNCHANGED <<sequentialVars, job_chunks, job_shrinks, job_open,
                   submitted, disk>>

NextConcurrent ==
    \E j \in Jobs :
        \/ JobExport(j)
        \/ JobGetsize(j)
        \/ JobShrink(j)
        \/ JobOpen(j)
        \/ JobCreate(j)
        \/ JobReply(j)
        \/ JobRemove(j)
        \/ JobSaveOpen(j)
        \/ JobDump(j)

SpecConcurrent == InitConcurrent /\ [][NextConcurrent]_vars

\* ------------------------------------------------------------------------
\* Properties
\* ------------------------------------------------------------------------
\* process_single_video has ended for the current video
VideoEnded == pc \in {"video_returned", "done"} /\ cur_url # None

\* the chunk loop has just run to completion
LoopCompleted == pc = "save_transcript"

\* the intervals [start, end) of cs, in order, partition [0, len)
IsPartition(cs, len) ==
    IF cs = << >>
    THEN len = 0
    ELSE /\ cs[1].start = 0
         /\ cs[Len(cs)].end = len
         /\ \A i \in 1..Len(cs) : cs[i].start < cs[i].end
         /\ \A i \in 1..(Len(cs) - 1) : cs[i + 1].start = cs[i].end

\* C1: when the chunk loop has run to completion, the submitted chunks
\* [start, end), in order, partition [0, len(audio)): the first starts at 0,
\* each next one starts where the previous ended, the last ends at
\* len(audio), and none is empty.
C1_ChunksPartitionAudio == LoopCompleted => IsPartition(chunks, audio_len)

\* two chunks, the first one shrunk, cover the whole audio
C1_Witness ==
    /\ LoopCompleted
    /\ Len(chunks) = 2
    /\ oversize = 1
    /\ chunks[1].end < INITIAL_CHUNK_DURATION

\* C2: every chunk handed to the transcription API, and the file about to be
\* handed to it, has an encoded size of at most MAX_FILE_SIZE.
C2_SubmittedChunksFit ==
    /\ \A i \in DOMAIN chunks : chunks[i].size <= MAX_FILE_SIZE
    /\ pc = "transcribe_chunk" => chunk_file \in 0..MAX_FILE_SIZE

\* a chunk is submitted after an oversize candidate was shrunk
C2_Witness ==
    /\ Len(chunks) >= 1
    /\ oversize = 1
    /\ chunks[1].size = MAX_FILE_SIZE
    /\ chunks[1].end - chunks[1].start < Min(INITIAL_CHUNK_DURATION, audio_len)

\* C3: when the captions provider has returned a track for the video, neither
\* download provider nor the transcription API is called for that video, and
\* process_single_video ends by returning a result whose transcript is that
\* track.
C3_CaptionsShortCircuit ==
    captions.got =>
        /\ calls.primary = 0 /\ calls.secondary = 0 /\ calls.transcribe = 0
        /\ VideoEnded =>
              /\ raised = "none"
              /\ "transcript" \in DOMAIN ret
              /\ ret.transcript = captions.track

RECURSIVE Flatten(_)
\* the concatenation of a sequence of sequences
Flatten(ss) == IF ss = << >> THEN << >> ELSE Head(ss) \o Flatten(Tail(ss))

\* every chunk of the audio was submitted and transcribed
AllChunksTranscribed ==
    /\ pc = "video_returned"
    /\ calls.transcribe >= 1
    /\ Len(replies) = Len(chunks)
    /\ start = audio_len

\* C4: on the transcription path, when every chunk was transcribed, the
\* returned result carries a transcript that is the concatenation of the
\* replies in submission order (each segment as {text, start, duration}).
C4_TranscriptIsConcatenation ==
    AllChunksTranscribed =>
        /\ "transcript" \in DOMAIN ret
        /\ ret.transcript = ConvertSegments(Flatten(replies))

\* a result value that is marked as an error or carries a transcript
IsVideoResult(r) == "error" \in DOMAIN r \/ "transcript" \in DOMAIN r

\* C5: process_playlist returns, without raising, exactly one result per
\* enumerated video, in enumeration order, whatever the per-video outcomes.
C5_PlaylistResultPerVideo ==
    (pc = "done" /\ in_playlist) =>
        /\ raised = "none"
        /\ Len(result) = Len(playlist_info)
        /\ \A i \in 1..Len(playlist_info) :
              /\ IsVideoResult(result[i])
              /\ "video_id" \in DOMAIN result[i]
              /\ result[i].video_id = playlist_info[i].video_id

\* every attempt of get_video_info for the current video failed
MetadataExhausted ==
    cur_url # None /\ attempts = max_retries /\ video_info = EmptyDict

\* C6: when all max_retries metadata attempts failed, process_single_video
\* returns an error-marked result and no exception escapes.
C6_MetadataFailureIsResult ==
    (MetadataExhausted /\ pc # "get_video_info") =>
        /\ raised = "none"
        /\ pc \in {"video_returned", "done"}
        /\ "error" \in DOMAIN ret

\* C7: when the primary download failed and the secondary provider fails in
\* any way, process_single_video returns {"error": ..., **video_info} and no
\* exception escapes.
C7_DownloadFailureIsResult ==
    [][(pc = "cobalt" /\ pc' # "decode_audio") =>
          /\ raised' = "none"
          /\ pc' = "video_returned"
          /\ ret' = DownloadFailedResult(video_info)]_vars

\* neither a playlist id nor a video id can be extracted from u
InvalidUrl(u) ==
    /\ extract_playlist_id(u) = None
    /\ "exc" \in DOMAIN extract_video_id(u)

\* C8: for a URL with neither a playlist id nor a video id, process_url makes
\* no metadata, captions or download request and ends by raising
\* InvalidYoutubeVideoURL.
C8_InvalidUrlRejected ==
    InvalidUrl(url) =>
        /\ calls = NoCalls
        /\ pc = "done" => raised = "InvalidYoutubeVideoURL"

\* C9: when a candidate of exactly 1000 ms encodes to more than the ceiling,
\* process_and_transcribe_audio returns {video_id, error} with the
\* chunk-too-small message; the result has no transcript and nothing is
\* raised.
C9_MinimumChunkOversizeFails ==
    [][(/\ pc = "export_chunk"
        /\ end - start = MIN_CHUNK_DURATION
        /\ oversize' = oversize + 1) =>
          /\ pc' = "video_returned"
          /\ raised' = "none"
          /\ ret' = ErrorResult(video_info,
                                "Unable to create a small enough chunk")
          /\ "transcript" \notin DOMAIN ret']_vars

\* the second chunk of the audio was a 1 s candidate and was rejected
C9_Witness ==
    /\ pc = "video_returned"
    /\ "error" \in DOMAIN ret
    /\ ret.error = "Unable to create a small enough chunk"
    /\ start > 0
    /\ audio_len - start = MIN_CHUNK_DURATION

\* consecutive entries of a transcript do not overlap and are in order
Chronological(t) ==
    \A i \in 1..(Len(t) - 1) : t[i].start + t[i].duration <= t[i + 1].start

\* C10: every transcript returned by the transcription path is chronological
\* and non-overlapping, also across chunk boundaries.
C10_TranscriptChronological ==
    (pc = "video_returned" /\ calls.transcribe >= 1
     /\ "transcript" \in DOMAIN ret) => Chronological(ret.transcript)

\* C11: persisting the transcript is best-effort: the step that writes the
\* output file ends with the same result for the video whether the write
\* succeeds or fails, on the captions path (the merged captions result) and
\* on the transcription path (the transcript result).
C11_PersistenceBestEffort ==
    [][/\ pc = "save_subtitle" =>
            /\ raised' = "none"
            /\ pc' = "video_returned"
            /\ ret' = Merge(CaptionResult(video_info, captions.track),
                            video_info)
       /\ pc = "save_transcript" =>
            /\ raised' = "none"
            /\ pc' = "video_returned"
            /\ ret' = TranscriptResult(video_info, transcripts)]_vars

\* C12: every persisted transcript file (a file with content) lies at
\* <output_dir>/<channel_title>/<date>_<video_id>.json and holds an object
\* whose top-level keys are exactly channel_id, video_title and transcript.
C12_OutputFileFormat ==
    \A f \in files : f.content # EmptyFile =>
        /\ \E i \in 0..9, date \in {UploadDate, Today} :
              f.path = OutputDir \o <<"/">> \o Channel \o <<"/">> \o date
                       \o <<"_">> \o VideoIdOf(i) \o DotJson
        /\ DOMAIN f.content = {"channel_id", "video_title", "transcript"}

\* C13: at most one chunk temp file exists at any moment (the file has one
\* fixed name), and once process_and_transcribe_audio has returned, with a
\* transcript or with an error result, no chunk temp file remains.
C13_NoChunkFileLeft ==
    pc \in {"video_returned", "done"} => chunk_file = -1

\* C14: process_url invokes exactly one handler, exactly once, with the
\* unmodified URL: process_playlist if and only if the URL contains
\* "list=" followed by an id character, otherwise process_single_video; no
\* later step invokes a handler again; and what process_url returns is what
\* that handler returned.
C14_ProcessUrlDispatch ==
    [][/\ pc = "process_url" =>
            /\ dispatched = << >>
            /\ dispatched' =
                  <<[handler |-> IF PlaylistMatches(url) # {}
                                 THEN "process_playlist"
                                 ELSE "process_single_video",
                     arg |-> url]>>
            /\ in_playlist' <=> dispatched'[1].handler = "process_playlist"
       /\ pc # "process_url" => UNCHANGED <<dispatched, in_playlist>>
       /\ (pc' = "done" /\ raised' = "none") =>
            result' = IF dispatched'[1].handler = "process_playlist"
                      THEN results' ELSE ret']_vars

\* a playlist URL went to process_playlist, which returned the results of
\* two videos
C14_Witness ==
    /\ url = UrlPlaylist
    /\ pc = "done"
    /\ raised = "none"
    /\ dispatched = <<[handler |-> "process_playlist", arg |-> url]>>
    /\ Len(result) = 2

\* the 11 characters of u from position i are id characters and the
\* characters just before them are those of prefix
CapturedAfter(u, prefix, i) ==
    /\ i > Len(prefix)
    /\ i + 10 <= Len(u)
    /\ SubSeq(u, i - Len(prefix), i - 1) = prefix
    /\ \A k \in i..(i + 10) : u[k] \in IdChars

\* position i starts an id that follows "v=" or "/"
Captured1(u, i) ==
    \/ CapturedAfter(u, <<"v", "=">>, i)
    \/ CapturedAfter(u, <<"/">>, i)

\* position i starts an id that follows "embed/", "v/" or "youtu", one
\* character that is not a newline, and "be/"
Captured2(u, i) ==
    \/ CapturedAfter(u, <<"e", "m", "b", "e", "d", "/">>, i)
    \/ CapturedAfter(u, <<"v", "/">>, i)
    \/ /\ CapturedAfter(u, <<"b", "e", "/">>, i)
       /\ i > 9
       /\ SubSeq(u, i - 9, i - 5) = <<"y", "o", "u", "t", "u">>
       /\ u[i - 4] # "\n"

\* u is an id and nothing else, but for a newline that may end it
Captured3(u, i) ==
    /\ i = 1
    /\ Len(u) \in {11, 12}
    /\ \A k \in 1..11 : u[k] \in IdChars
    /\ Len(u) = 12 => u[12] = "\n"

\* the url matches none of the three patterns of extract_video_id
NoPatternMatches(u) ==
    \A i \in 1..Len(u) :
        ~Captured1(u, i) /\ ~Captured2(u, i) /\ ~Captured3(u, i)

\* position i is where the first pattern that matches u anywhere has its
\* leftmost match
FirstCapture(u, i) ==
    LET Before == 1..(i - 1)
        All == 1..Len(u)
    IN  \/ Captured1(u, i) /\ \A j \in Before : ~Captured1(u, j)
        \/ /\ \A j \in All : ~Captured1(u, j)
           /\ Captured2(u, i) /\ \A j \in Before : ~Captured2(u, j)
        \/ /\ \A j \in All : ~Captured1(u, j) /\ ~Captured2(u, j)
           /\ Captured3(u, i)

\* the call returned the 11 characters captured by the first matching pattern
ReturnedCapture ==
    /\ raised = "none"
    /\ \E i \in 1..Len(url) :
          FirstCapture(url, i) /\ ret = SubSeq(url, i, i + 10)

\* C15: extract_video_id returns the 11-character id captured by the first
\* matching pattern, and returns None, without raising, for a URL that none
\* of its patterns matches.
C15_ExtractVideoIdReturnsNone ==
    (pc = "done" /\ dispatched = << >>) =>
        IF NoPatternMatches(url)
        THEN raised = "none" /\ ret = None
        ELSE ReturnedCapture

\* the state of the per-video state machine a program position belongs to
PhaseOf(p) ==
    CASE p = "get_video_info" -> "METADATA_FETCH"
      [] p \in {"captions_preferred", "captions_any", "save_subtitle"} ->
            "CAPTIONS_ATTEMPT"
      [] p \in {"download_audio", "cobalt"} -> "AUDIO_DOWNLOAD"
      [] p \in {"decode_audio", "export_chunk", "transcribe_chunk",
                "save_transcript"} -> "CHUNK_TRANSCRIBE"
      [] p = "video_returned" -> "RETURNED"
      [] OTHER -> "OUTSIDE"

PerVideoPhases ==
    {"METADATA_FETCH", "CAPTIONS_ATTEMPT", "AUDIO_DOWNLOAD",
     "CHUNK_TRANSCRIBE"}

\* the edges of the state machine; a step may also stay in its state
PhaseEdges ==
    {<<"METADATA_FETCH", "CAPTIONS_ATTEMPT">>,
     <<"METADATA_FETCH", "RETURNED">>,
     <<"CAPTIONS_ATTEMPT", "AUDIO_DOWNLOAD">>,
     <<"CAPTIONS_ATTEMPT", "RETURNED">>,
     <<"AUDIO_DOWNLOAD", "CHUNK_TRANSCRIBE">>,
     <<"AUDIO_DOWNLOAD", "RETURNED">>,
     <<"CHUNK_TRANSCRIBE", "RETURNED">>}

\* C16: each per-video run follows METADATA_FETCH -> CAPTIONS_ATTEMPT ->
\* DONE, or -> AUDIO_DOWNLOAD -> CHUNK_TRANSCRIBE -> DONE, or -> FAILED:
\* every step stays in its state or follows an edge, the download starts
\* only after a captions attempt that found no track, chunk transcription
\* starts only with a downloaded audio file, and a run ends only by
\* returning a transcript result (DONE) or an error result (FAILED).
C16_PerVideoStateMachine ==
    [][PhaseOf(pc) \in PerVideoPhases =>
          /\ \/ PhaseOf(pc') = PhaseOf(pc)
             \/ <<PhaseOf(pc), PhaseOf(pc')>> \in PhaseEdges
          /\ PhaseOf(pc') = "AUDIO_DOWNLOAD" /\ PhaseOf(pc) # "AUDIO_DOWNLOAD"
                => calls'.captions >= 1 /\ ~captions'.got
          /\ PhaseOf(pc') = "CHUNK_TRANSCRIBE" /\ PhaseOf(pc) # "CHUNK_TRANSCRIBE"
                => audio_exists'
          /\ PhaseOf(pc') = "RETURNED"
                => raised' = "none" /\ IsVideoResult(ret')]_vars

\* video_info holds the required fields of info and, of the optional ones,
\* exactly those that info has
IsMetadataOf(info) ==
    /\ DOMAIN video_info =
          {"video_id", "video_title", "channel_title"}
          \cup (OptionalInfoKeys \cap DOMAIN info)
    /\ video_info.video_id = info.id
    /\ video_info.video_title = info.title
    /\ video_info.channel_title = info.channel
    /\ \A k \in OptionalInfoKeys \cap DOMAIN info : video_info[k] = info[k]

\* C17: get_video_info makes at most max_retries fetch attempts, goes on
\* only while no attempt has succeeded, returns the metadata of the first
\* successful attempt with only the fields that are present, and returns the
\* empty record exactly when all max_retries attempts failed.
C17_MetadataRetries ==
    /\ calls.metadata <= max_retries
    /\ pc = "get_video_info" => ~fetched.got /\ calls.metadata = attempts
    /\ (cur_url # None /\ pc # "get_video_info") =>
          /\ calls.metadata = attempts
          /\ fetched.got => IsMetadataOf(fetched.info)
          /\ ~fetched.got => attempts = max_retries
          /\ video_info = EmptyDict <=> ~fetched.got

\* the first attempt failed and the second returned an info dict with an
\* upload date
C17_Witness ==
    /\ pc = "captions_preferred"
    /\ max_retries >= 2
    /\ attempts = 2
    /\ fetched.got
    /\ "upload_date" \in DOMAIN video_info

\* C18: when the transcription call for a chunk fails, the video's
\* transcription ends at once with the error result {video_id, error}: no
\* exception is raised, the result carries no segment of the earlier chunks,
\* and no further chunk is encoded or submitted for the video.
C18_ChunkFailureAborts ==
    [][/\ (pc = "transcribe_chunk" /\ replies' = replies) =>
            /\ pc' = "video_returned"
            /\ raised' = "none"
            /\ DOMAIN ret' = {"video_id", "error"}
            /\ ret'.video_id = video_info.video_id
       /\ (pc = "video_returned" /\ cur_url' = cur_url) =>
            UNCHANGED <<chunks, calls, oversize>>]_vars

\* the second chunk failed after the first had delivered its segments
C18_Witness ==
    /\ pc = "video_returned"
    /\ Len(chunks) = 2
    /\ Len(replies) = 1
    /\ transcripts # << >>
    /\ DOMAIN ret = {"video_id", "error"}

\* C19: with an encoder whose size does not decrease with the duration and
\* for which a 1000 ms slice fits the ceiling, the chunker never ends with
\* the chunk-too-small error.
C19_TooSmallOnlyWhenMinimumDoesNotFit ==
    (/\ fit_limit # Unconstrained
     /\ fit_limit >= MIN_CHUNK_DURATION
     /\ pc = "video_returned"
     /\ "error" \in DOMAIN ret) =>
        ret.error # "Unable to create a small enough chunk"

\* C20: after a chunk is accepted, the candidate for the next chunk starts
\* at the end of the accepted chunk and is min(INITIAL_CHUNK_DURATION,
\* remaining audio) long, however often the accepted chunk was halved.
C20_CandidateReset ==
    [][(pc = "transcribe_chunk" /\ pc' = "export_chunk") =>
          /\ start' = end
          /\ end' - start' = Min(INITIAL_CHUNK_DURATION, audio_len - start')]_vars

\* the first chunk was accepted after two halvings and the candidate for the
\* second chunk is a full 10 minutes again
C20_Witness ==
    /\ pc = "export_chunk"
    /\ Len(chunks) = 1
    /\ Len(replies) = 1
    /\ oversize = 2
    /\ chunks[1].end - chunks[1].start = INITIAL_CHUNK_DURATION \div 4
    /\ start = chunks[1].end
    /\ end - start = INITIAL_CHUNK_DURATION

\* C21: per video, each download provider is requested at most once and
\* always for the video's watch URL; the secondary provider is requested
\* only as the second request, after the primary one failed with a download
\* error; and when the primary request succeeded it is the only request and
\* download_audio has returned <output_dir>/<video_id>.mp3.
C21_ProviderFallbackOrder ==
    /\ Len(downloads) <= 2
    /\ calls.primary = Cardinality({i \in DOMAIN downloads :
                                      downloads[i].provider = "primary"})
    /\ calls.secondary = Cardinality({i \in DOMAIN downloads :
                                        downloads[i].provider = "secondary"})
    /\ calls.primary <= 1 /\ calls.secondary <= 1
    /\ \A i \in DOMAIN downloads :
          /\ downloads[i].url = WatchPrefix \o video_info.video_id
          /\ downloads[i].provider = "secondary" =>
                /\ i = 2
                /\ downloads[1].provider = "primary"
                /\ downloads[1].outcome = "DownloadError"
    /\ (downloads # << >> /\ downloads[1].outcome = "ok") =>
          /\ downloads[1].provider = "primary"
          /\ Len(downloads) = 1
          /\ audio_file = OutputDir \o <<"/">> \o video_info.video_id
                          \o <<".", "m", "p", "3">>
    /\ pc = "cobalt" => Len(downloads) = 1 /\ audio_file = None

\* the second video of a playlist: the primary download failed, the
\* secondary delivered the audio
C21_Witness ==
    /\ idx = 2
    /\ Len(downloads) = 2
    /\ downloads[2].provider = "secondary"
    /\ downloads[2].outcome = "ok"
    /\ audio_file # None
    /\ pc = "decode_audio"

\* a step of the chunk loop either shrinks the candidate of the current
\* chunk to a shorter one of at least 1 s, or accepts a candidate of positive
\* duration, or moves the cursor forward to the end of the accepted chunk;
\* and the bound of the run on oversize encodings never stops a shrink
LoopProgress ==
    /\ pc = "export_chunk" => oversize < oversize_bound
    /\ (pc = "export_chunk" /\ pc' = "export_chunk") =>
          /\ start' = start
          /\ end' - start' < end - start
          /\ end' - start' >= MIN_CHUNK_DURATION
    /\ (pc = "export_chunk" /\ pc' = "transcribe_chunk") =>
          /\ start' = start /\ end' = end
          /\ end - start > 0
    /\ (pc = "transcribe_chunk" /\ pc' \in {"export_chunk", "save_transcript"}) =>
          /\ start' = end
          /\ start' > start
          /\ start' <= audio_len

\* C22: the chunking procedure terminates: every step of the loop makes
\* progress (a shorter candidate that is still at least 1 s long, or an
\* accepted chunk of positive duration and a cursor that moves forward), and
\* every run ends with the function returning.
C22_ChunkingTerminates ==
    [][LoopProgress]_vars /\ <>(pc = "video_returned")

\* the loop ran to completion after two chunks and three halvings
C22_Witness ==
    /\ pc = "video_returned"
    /\ "transcript" \in DOMAIN ret
    /\ Len(chunks) >= 2
    /\ oversize >= 3
    /\ start = audio_len

\* C23: the preferred-language query is the first captions request of a
\* video and ends with a track or with the unrestricted query, never with
\* an exception; the unrestricted query is made only after the first one
\* found no track and ends with a track or with the audio fallback; and a
\* returned captions result carries the track of the first successful query
\* unchanged, with channel_id = channel title and the video title.
C23_CaptionsQueryOrder ==
    [][/\ pc = "captions_preferred" =>
            /\ calls.captions = 0
            /\ raised' = "none"
            /\ \/ pc' = "save_subtitle" /\ captions'.got
               \/ pc' = "captions_any" /\ ~captions'.got
       /\ pc = "captions_any" =>
            /\ calls.captions = 1
            /\ ~captions.got
            /\ raised' = "none"
            /\ \/ pc' = "save_subtitle" /\ captions'.got
               \/ pc' = "download_audio" /\ ~captions'.got
       /\ (pc = "save_subtitle" /\ pc' = "video_returned") =>
            /\ captions.got
            /\ ret'.transcript = captions.track
            /\ ret'.channel_id = video_info.channel_title
            /\ ret'.video_title = video_info.video_title]_vars

\* the video an output file was written for: the transcription file has the
\* id in its content, the captions file in its name (the 11 characters
\* before ".json")
FileVideo(f) ==
    IF "video_id" \in DOMAIN f.content THEN f.content.video_id
    ELSE SubSeq(f.path, Len(f.path) - 15, Len(f.path) - 5)

\* C24: no step of the processing of a video overwrites or removes the
\* output file written, with its content, for a different video.
C24_OutputFilesKeyedByVideo ==
    [][\A f \in files :
          ("video_id" \in DOMAIN video_info
           /\ f.content # EmptyFile
           /\ FileVideo(f) # video_info.video_id) => f \in files']_vars

\* C25: two jobs that share an output directory use distinct names for
\* their chunk file, so that a step of one job never overwrites or deletes
\* the chunk file the other job wrote, and every chunk file a job hands to
\* the transcription API was written by that job.
C25_DistinctChunkFiles ==
    [][\A j \in Jobs :
          job_pc'[j] # job_pc[j] =>
             /\ \A n \in DOMAIN disk :
                   disk[n] \notin {Absent, j} => disk'[n] = disk[n]
             /\ \A i \in DOMAIN submitted'[j] : submitted'[j][i] = j]_vars

\* a result with exactly one of the markers "transcript" and "error"
ExactlyOneMarker(r) ==
    ("transcript" \in DOMAIN r) # ("error" \in DOMAIN r)

\* C26: every result process_single_video has returned, whether it is the
\* one just returned, one collected by process_playlist or the one returned
\* by process_url, carries exactly one of "transcript" and "error".
C26_ExactlyOneMarker ==
    /\ pc = "video_returned" => ExactlyOneMarker(ret)
    /\ \A i \in DOMAIN results : ExactlyOneMarker(results[i])
    /\ (pc = "done" /\ raised = "none" /\ ~in_playlist) =>
          ExactlyOneMarker(result)

\* a playlist run returned a captions transcript for its first video and a
\* download failure for its second
C26_Witness ==
    /\ pc = "done"
    /\ in_playlist
    /\ Len(result) = 2
    /\ "transcript" \in DOMAIN result[1]
    /\ result[1].transcript \in CaptionTracks
    /\ "error" \in DOMAIN result[2]
    /\ result[2].error = "Failed to download audio"

====
